---- MODULE Spec2Model ----
(***************************************************************************)
(* State-machine model of the merge_plot_tables scripts:                   *)
(*   merge_qts_sqlite_list.py            (dedup merge engine)              *)
(*   extract_duplicate_rows_to_sqlite.py (duplicate extraction engine)     *)
(* SQLite values are records [t, s]: t is the storage class, s the text    *)
(* SQLite renders for the value.                                           *)
(***************************************************************************)
EXTENDS Integers, Sequences, FiniteSets, TLC

VARIABLES
    listFile,        \* the --input-list file: [exists, lines]
    dest,            \* the file at --output-sqlite (merge engine)
    destAtStart,     \* ghost: the file that was at the destination when the run started
    run,             \* 1 for the first run, 2 for the rerun on the same inputs
    prev,            \* ghost: how the previous run ended and the rows it left
    pc,              \* position of main()
    paths,           \* input_paths returned by read_sqlite_paths
    cur,             \* loop index over input_paths (1-based)
    conn,            \* TRUE while the sqlite3 connection is open
    attached,        \* indexes of the databases attached to the connection
    txn,             \* the connection's open transaction: [active, rows]
    per_file_counts, \* merge_inputs' per_file_counts (the counts only)
    report,          \* what main() prints at the end
    err,             \* the exception propagating to the caller, "none" if none
    origErr,         \* ghost: the first failure of the run
    failedAt,        \* ghost: source index being processed at the first failure
    outDir,          \* TRUE once --output-dir exists (extraction engine)
    outs,            \* extraction outputs: one artifact per source index
    attachedOut      \* extraction: TRUE while outdb is attached

vars == << listFile, dest, destAtStart, run, prev, pc, paths, cur, conn,
           attached, txn, per_file_counts, report, err, origErr, failedAt,
           outDir, outs, attachedOut >>

(***************************************************************************)
(* Bounds of the model.                                                    *)
(***************************************************************************)
MaxSources == 2      \* lines in the list file
MaxRecords == 2      \* records in all listed sources together (merge engine)
MaxRows == 3         \* records in all listed sources together (extraction engine)

(***************************************************************************)
(* Record schema and identity key.                                         *)
(***************************************************************************)
NON_ID_COLUMNS ==
    << "study_id", "study_label", "dataset_id", "molecular_trait_id",
       "gene_id", "gene_name", "variant", "rsid", "quantification_method",
       "credible_set", "credible_set_size", "pip", "pvalue", "beta", "se",
       "dataset_label", "plot_variant" >>

Columns == { NON_ID_COLUMNS[i] : i \in 1..Len(NON_ID_COLUMNS) }

NULL == [t |-> "null", s |-> ""]
Text(x) == [t |-> "text", s |-> x]
Integer(x) == [t |-> "integer", s |-> x]
Real(x) == [t |-> "real", s |-> x]

\* CAST(v AS TEXT): NULL stays NULL, any other value becomes its text.
CastAsText(v) == IF v.t = "null" THEN NULL ELSE Text(v.s)

\* ifnull(v, d)
Ifnull(v, d) == IF v.t = "null" THEN d ELSE v

\* The indexed expressions had the index been built on the bare CAST,
\* without ifnull.
DedupExprNoIfnull(key) == [c \in Columns |-> CastAsText(key[c])]

\* The indexed expressions of uq_full_row_tmp for one row.
DedupExpr(key) == [c \in Columns |-> Ifnull(CastAsText(key[c]), Text("__NULL__"))]

\* A UNIQUE index rejects a row whose indexed values all equal those of an
\* existing row; an indexed NULL never equals anything.
UniqueConflict(k1, k2) ==
    \A c \in Columns :
        /\ DedupExpr(k1)[c].t # "null"
        /\ DedupExpr(k1)[c] = DedupExpr(k2)[c]

(***************************************************************************)
(* Tables and the rows they hold.  A source row is [id, key]; a row of the *)
(* merged table also carries, as a ghost field, the source position and    *)
(* the original id of the record it was inserted from.                     *)
(***************************************************************************)
Max(S) == CHOOSE x \in S : \A y \in S : y <= x

Ids(rows) == { rows[i].id : i \in 1..Len(rows) }

Range(rows) == { rows[i] : i \in 1..Len(rows) }

Sum(counts) ==
    LET RECURSIVE S(_)
        S(q) == IF q = << >> THEN 0 ELSE Head(q) + S(Tail(q))
    IN  S(counts)

\* ORDER BY id DESC: the rows in descending id.
RECURSIVE SortByIdDesc(_)
SortByIdDesc(rows) ==
    IF rows = << >> THEN << >>
    ELSE LET i == CHOOSE j \in 1..Len(rows) :
                      \A k \in 1..Len(rows) : rows[k].id <= rows[j].id
             rest == [k \in 1..(Len(rows) - 1) |->
                         IF k < i THEN rows[k] ELSE rows[k + 1]]
         IN  << rows[i] >> \o SortByIdDesc(rest)

\* ORDER BY id: the rows in ascending id, whatever their physical order.
RECURSIVE SortById(_)
SortById(rows) ==
    IF rows = << >> THEN << >>
    ELSE LET i == CHOOSE j \in 1..Len(rows) :
                      \A k \in 1..Len(rows) : rows[j].id <= rows[k].id
             rest == [k \in 1..(Len(rows) - 1) |->
                         IF k < i THEN rows[k] ELSE rows[k + 1]]
         IN  << rows[i] >> \o SortById(rest)

\* INSERT OR IGNORE of one record: dropped when uq_full_row_tmp rejects it,
\* otherwise stored under the next rowid (largest id so far plus one).
InsertOrIgnore(table, rec, pos) ==
    IF \E i \in 1..Len(table) : UniqueConflict(table[i].key, rec.key)
    THEN table
    ELSE Append(table,
                [id     |-> IF table = << >> THEN 1 ELSE Max(Ids(table)) + 1,
                 key    |-> rec.key,
                 origin |-> << pos, rec.id >>])

RECURSIVE InsertEach(_, _, _)
InsertEach(table, recs, pos) ==
    IF recs = << >> THEN table
    ELSE InsertEach(InsertOrIgnore(table, Head(recs), pos), Tail(recs), pos)

\* insert_new_rows: INSERT OR IGNORE ... SELECT ... FROM src ORDER BY id.
InsertNewRows(table, srcRows, pos) == InsertEach(table, SortById(srcRows), pos)

(***************************************************************************)
(* The list file and read_sqlite_paths (the same function in both          *)
(* scripts).  A line is [blank, abs, exists, hasTable, rows]: whether it   *)
(* is blank, whether the path written on it is absolute, and the file the  *)
(* path names (whether it exists, whether it has credible_set_table, and   *)
(* the table's rows in physical order).                                    *)
(***************************************************************************)
\* Path(line).resolve(): a relative path is made absolute against the
\* working directory; it names the same file.
Resolve(line) == [line EXCEPT !.abs = TRUE]

IsAbsolute(path) == path.abs

ReadSqlitePaths(lf) ==
    IF ~lf.exists THEN [ok |-> FALSE, paths |-> << >>]
    ELSE LET lines    == SelectSeq(lf.lines, LAMBDA l : ~l.blank)
             resolved == [i \in 1..Len(lines) |-> Resolve(lines[i])]
         IN  IF \E i \in 1..Len(resolved) :
                    ~IsAbsolute(resolved[i]) \/ ~resolved[i].exists
             THEN [ok |-> FALSE, paths |-> << >>]
             ELSE IF resolved = << >>
                  THEN [ok |-> FALSE, paths |-> << >>]
                  ELSE [ok |-> TRUE, paths |-> resolved]

(***************************************************************************)
(* Input domains.                                                          *)
(***************************************************************************)
BaseKey ==
    [c \in Columns |->
        CASE c = "credible_set_size" -> Integer("5")
          [] c \in {"pip", "pvalue", "beta", "se"} -> Real("0.5")
          [] OTHER -> Text("x")]

RsidValues == { NULL, Text("__NULL__"), Text("rs1") }

Keys == { [BaseKey EXCEPT !["rsid"] = v] : v \in RsidValues }

\* Tables of n rows stored in id order, ids 1..n.
TablesInIdOrder(n) ==
    { [i \in 1..n |-> [id |-> i, key |-> f[i]]] : f \in [1..n -> Keys] }

\* Tables of n rows stored in id order or against it, ids 1..n.
TablesAnyOrder(n) ==
    TablesInIdOrder(n) \cup
    { [i \in 1..n |-> [id |-> n + 1 - i, key |-> f[i]]] : f \in [1..n -> Keys] }

FileLine(abs, exists, hasTable, rows) ==
    [blank |-> FALSE, abs |-> abs, exists |-> exists,
     hasTable |-> hasTable, rows |-> rows]

BlankLine == [blank |-> TRUE, abs |-> FALSE, exists |-> FALSE,
              hasTable |-> FALSE, rows |-> << >>]

\* Lines that name no usable source, or name one by a relative path.
OddLines ==
    { BlankLine,
      FileLine(TRUE, FALSE, FALSE, << >>),     \* absolute, no such file
      FileLine(FALSE, FALSE, FALSE, << >>),    \* relative, no such file
      FileLine(FALSE, TRUE, TRUE, << >>),      \* relative, existing source
      FileLine(TRUE, TRUE, FALSE, << >>) }     \* a file without the table

MergeLines ==
    OddLines \cup
    { FileLine(TRUE, TRUE, TRUE, t) :
          t \in UNION { TablesInIdOrder(n) : n \in 0..MaxRecords } }

ExtractLines ==
    { FileLine(TRUE, FALSE, FALSE, << >>),     \* absolute, no such file
      FileLine(FALSE, TRUE, TRUE, << >>),      \* relative, existing source
      FileLine(TRUE, TRUE, FALSE, << >>) } \cup
    { FileLine(TRUE, TRUE, TRUE, t) :
          t \in UNION { TablesAnyOrder(n) : n \in 0..MaxRows } }

\* The sequences of lines whose i-th line holds counts[i] records.
RECURSIVE ListsShaped(_, _, _)
ListsShaped(lines, counts, n) ==
    IF n = 0 THEN { << >> }
    ELSE { Append(rest, l) :
               rest \in ListsShaped(lines, counts, n - 1),
               l \in { x \in lines : Len(x.rows) = counts[n] } }

\* The list files of at most MaxSources lines that hold at most `budget`
\* records together, and the missing list file.
ListFiles(lines, budget) ==
    { [exists |-> FALSE, lines |-> << >>] } \cup
    { [exists |-> TRUE, lines |-> l] :
          l \in UNION { UNION { ListsShaped(lines, counts, n) :
                                  counts \in { c \in [1..n -> 0..budget] :
                                                  Sum(c) <= budget } } :
                        n \in 0..MaxSources } }

(***************************************************************************)
(* The output file of the merge engine.  gen is a ghost stamp: the run     *)
(* that created the file (0: a file that was there before the first run).  *)
(***************************************************************************)
Absent == [exists |-> FALSE, gen |-> 0, hasTable |-> FALSE, uniq |-> FALSE,
           indexed |-> FALSE, rows |-> << >>]

\* A finished artifact left at the destination by an earlier invocation.
StaleArtifact ==
    [exists |-> TRUE, gen |-> 0, hasTable |-> TRUE, uniq |-> FALSE,
     indexed |-> TRUE,
     rows |-> << [id |-> 1, key |-> [BaseKey EXCEPT !["rsid"] = Text("rs1")],
                  origin |-> << 1, 1 >>] >>]

\* Which file a destination state is: none, or the file created by run gen.
FileId(d) == [exists |-> d.exists, gen |-> d.gen]

NoTxn == [active |-> FALSE, rows |-> << >>]

NoReport == [printed |-> FALSE, total |-> 0, merged |-> 0, removed |-> 0]

NoPrev == [status |-> "none", rows |-> << >>]

\* No unlink: the existing file is left where it is.
UnlinkSkipped(d) == d

\* output_sqlite.unlink()
Unlink(d) == Absent

\* A close() that commits what the open transaction holds.
CloseConnCommitting(d, t) == IF t.active THEN [d EXCEPT !.rows = t.rows] ELSE d

\* conn.close(): an open transaction is rolled back, the file keeps what
\* was committed.
CloseConn(d, t) == d

\* The table as the connection sees it.
Visible == IF txn.active THEN txn.rows ELSE dest.rows

\* An exception leaves the try block of main(): the first failure is kept
\* as a ghost, with the source being processed when it happened.
Raise(e, at) ==
    /\ err' = e
    /\ origErr' = IF origErr = "none" THEN e ELSE origErr
    /\ failedAt' = IF origErr = "none" THEN at ELSE failedAt

NoRaise == UNCHANGED << err, origErr, failedAt >>

extractVars == << outDir, outs, attachedOut >>

(***************************************************************************)
(* main() of merge_qts_sqlite_list.py, one action per statement.           *)
(***************************************************************************)
\* input_paths = read_sqlite_paths(input_list)
MainReadPaths ==
    /\ pc = "main"
    /\ LET res == ReadSqlitePaths(listFile)
       IN  IF res.ok
           THEN /\ paths' = res.paths
                /\ pc' = "prepare"
                /\ NoRaise
           ELSE /\ pc' = "failed"
                /\ Raise("input-not-found", 0)
                /\ UNCHANGED paths
    /\ UNCHANGED << listFile, dest, destAtStart, run, prev, cur, conn, attached,
                    txn, per_file_counts, report, extractVars >>

\* parent.mkdir(...); if output_sqlite.exists(): output_sqlite.unlink()
MainPrepareOutput ==
    /\ pc = "prepare"
    /\ dest' = IF dest.exists THEN Unlink(dest) ELSE dest
    /\ pc' = "connect"
    /\ UNCHANGED << listFile, destAtStart, run, prev, paths, cur, conn, attached,
                    txn, per_file_counts, report, err, origErr, failedAt,
                    extractVars >>

\* conn = sqlite3.connect(str(output_sqlite)): opens the file, creating it
\* when there is none.  It is outside the try block.
MainConnect ==
    /\ pc = "connect"
    /\ \E ok \in BOOLEAN :
          IF ok
          THEN /\ dest' = IF dest.exists THEN dest
                          ELSE [Absent EXCEPT !.exists = TRUE, !.gen = run]
               /\ conn' = TRUE
               /\ pc' = "create"
               /\ NoRaise
          ELSE /\ pc' = "failed"
               /\ Raise("connect", 0)
               /\ UNCHANGED << dest, conn >>
    /\ UNCHANGED << listFile, destAtStart, run, prev, paths, cur, attached, txn,
                    per_file_counts, report, extractVars >>

\* The two PRAGMAs and create_output_table(conn): CREATE TABLE fails when
\* the file already holds credible_set_table.
MainCreateOutputTable ==
    /\ pc = "create"
    /\ \E ok \in BOOLEAN :
          IF ok /\ ~dest.hasTable
          THEN /\ dest' = [dest EXCEPT !.hasTable = TRUE, !.uniq = TRUE]
               /\ cur' = 1
               /\ pc' = "attach"
               /\ NoRaise
          ELSE /\ pc' = "close"
               /\ Raise("create", 0)
               /\ UNCHANGED << dest, cur >>
    /\ UNCHANGED << listFile, destAtStart, run, prev, paths, conn, attached, txn,
                    per_file_counts, report, extractVars >>

(***************************************************************************)
(* merge_inputs(conn, input_paths): the loop body, one action per call.    *)
(***************************************************************************)
\* conn.execute("ATTACH DATABASE ? AS src_N"): before the try block.
Attach ==
    /\ pc = "attach"
    /\ \E ok \in BOOLEAN :
          IF ok
          THEN /\ attached' = attached \cup {cur}
               /\ pc' = "count"
               /\ NoRaise
          ELSE /\ pc' = "close"
               /\ Raise("attach", cur)
               /\ UNCHANGED attached
    /\ UNCHANGED << listFile, dest, destAtStart, run, prev, paths, cur, conn, txn,
                    per_file_counts, report, extractVars >>

\* row_count = SELECT COUNT(*) FROM src_N.credible_set_table;
\* per_file_counts.append(...).  A source without the table fails here.
Count ==
    /\ pc = "count"
    /\ \E ok \in BOOLEAN :
          IF ok /\ paths[cur].hasTable
          THEN /\ per_file_counts' = Append(per_file_counts, Len(paths[cur].rows))
               /\ pc' = "insert"
               /\ NoRaise
          ELSE /\ pc' = "detach"
               /\ Raise("count", cur)
               /\ UNCHANGED per_file_counts
    /\ UNCHANGED << listFile, dest, destAtStart, run, prev, paths, cur, conn,
                    attached, txn, report, extractVars >>

\* insert_new_rows(conn, alias): the statement opens the transaction; a
\* failing statement changes no row, and leaves the transaction open when
\* it failed while running (began) and not while being prepared.
Insert ==
    /\ pc = "insert"
    /\ \E ok \in BOOLEAN, began \in BOOLEAN :
          IF ok
          THEN /\ began
               /\ txn' = [active |-> TRUE,
                          rows |-> InsertNewRows(dest.rows, paths[cur].rows, cur)]
               /\ pc' = "commit"
               /\ NoRaise
          ELSE /\ txn' = IF began THEN [active |-> TRUE, rows |-> dest.rows] ELSE NoTxn
               /\ pc' = "detach"
               /\ Raise("insert", cur)
    /\ UNCHANGED << listFile, dest, destAtStart, run, prev, paths, cur, conn,
                    attached, per_file_counts, report, extractVars >>

\* conn.commit(): a failed commit leaves the transaction open.
Commit ==
    /\ pc = "commit"
    /\ \E ok \in BOOLEAN :
          IF ok
          THEN /\ dest' = [dest EXCEPT !.rows = txn.rows]
               /\ txn' = NoTxn
               /\ NoRaise
          ELSE /\ Raise("commit", cur)
               /\ UNCHANGED << dest, txn >>
    /\ pc' = "detach"
    /\ UNCHANGED << listFile, destAtStart, run, prev, paths, cur, conn, attached,
                    per_file_counts, report, extractVars >>

\* finally: conn.execute("DETACH DATABASE src_N").  SQLite refuses to
\* detach a database that is part of an open transaction.  An exception
\* raised here replaces the one that was propagating.
Detach ==
    /\ pc = "detach"
    /\ \E ok \in BOOLEAN :
          IF ok /\ ~txn.active
          THEN /\ attached' = attached \ {cur}
               /\ NoRaise
               /\ IF err # "none" THEN pc' = "close" /\ UNCHANGED cur
                  ELSE IF cur < Len(paths)
                       THEN pc' = "attach" /\ cur' = cur + 1
                       ELSE pc' = "index" /\ UNCHANGED cur
          ELSE /\ Raise("detach", cur)
               /\ pc' = "close"
               /\ UNCHANGED << attached, cur >>
    /\ UNCHANGED << listFile, dest, destAtStart, run, prev, paths, conn, txn,
                    per_file_counts, report, extractVars >>

(***************************************************************************)
(* The rest of main().                                                     *)
(***************************************************************************)
\* create_final_indexes(conn); merged_rows = SELECT COUNT(*); conn.commit().
\* A failure comes before or after DROP INDEX uq_full_row_tmp took effect.
MainCreateFinalIndexes ==
    /\ pc = "index"
    /\ \E ok \in BOOLEAN, dropped \in BOOLEAN :
          IF ok
          THEN /\ dropped
               /\ dest' = [dest EXCEPT !.uniq = FALSE, !.indexed = TRUE]
               /\ report' = [report EXCEPT !.merged = Len(Visible)]
               /\ NoRaise
          ELSE /\ dest' = IF dropped THEN [dest EXCEPT !.uniq = FALSE] ELSE dest
               /\ Raise("index", 0)
               /\ UNCHANGED report
    /\ pc' = "close"
    /\ UNCHANGED << listFile, destAtStart, run, prev, paths, cur, conn, attached,
                    txn, per_file_counts, extractVars >>

\* finally: conn.close()
MainClose ==
    /\ pc = "close"
    /\ dest' = CloseConn(dest, txn)
    /\ conn' = FALSE
    /\ attached' = {}
    /\ txn' = NoTxn
    /\ pc' = IF err = "none" THEN "report" ELSE "failed"
    /\ UNCHANGED << listFile, destAtStart, run, prev, paths, cur, per_file_counts,
                    report, err, origErr, failedAt, extractVars >>

\* total_input_rows, duplicate_rows_removed and the five print() calls.
MainReport ==
    /\ pc = "report"
    /\ LET total == Sum(per_file_counts)
       IN  report' = [printed |-> TRUE, total |-> total, merged |-> report.merged,
                      removed |-> total - report.merged]
    /\ pc' = "done"
    /\ UNCHANGED << listFile, dest, destAtStart, run, prev, paths, cur, conn,
                    attached, txn, per_file_counts, err, origErr, failedAt,
                    extractVars >>

\* The script is invoked a second time with the same arguments.
Rerun ==
    /\ pc \in {"done", "failed"}
    /\ run = 1
    /\ run' = 2
    /\ prev' = IF pc = "done" THEN [status |-> "done", rows |-> dest.rows]
                ELSE [status |-> "failed", rows |-> << >>]
    /\ destAtStart' = FileId(dest)
    /\ pc' = "main"
    /\ paths' = << >>
    /\ cur' = 0
    /\ per_file_counts' = << >>
    /\ report' = NoReport
    /\ err' = "none"
    /\ origErr' = "none"
    /\ failedAt' = 0
    /\ UNCHANGED << listFile, dest, conn, attached, txn, extractVars >>

InitControl ==
    /\ run = 1
    /\ prev = NoPrev
    /\ paths = << >>
    /\ cur = 0
    /\ conn = FALSE
    /\ attached = {}
    /\ txn = NoTxn
    /\ per_file_counts = << >>
    /\ report = NoReport
    /\ err = "none"
    /\ origErr = "none"
    /\ failedAt = 0
    /\ outDir = FALSE
    /\ attachedOut = FALSE

Init ==
    /\ listFile \in ListFiles(MergeLines, MaxRecords)
    /\ dest \in {Absent, StaleArtifact}
    /\ destAtStart = FileId(dest)
    /\ pc = "main"
    /\ outs = << >>
    /\ InitControl

Next ==
    \/ MainReadPaths
    \/ MainPrepareOutput
    \/ MainConnect
    \/ MainCreateOutputTable
    \/ Attach
    \/ Count
    \/ Insert
    \/ Commit
    \/ Detach
    \/ MainCreateFinalIndexes
    \/ MainClose
    \/ MainReport
    \/ Rerun

Spec == Init /\ [][Next]_vars

(***************************************************************************)
(* extract_duplicate_rows_to_sqlite.py.  One output file per source index; *)
(* the connection is opened on the source and the output is attached to it *)
(* as outdb.                                                               *)
(***************************************************************************)
AbsentOut == [exists |-> FALSE, hasTable |-> FALSE, rows |-> << >>]

\* An output file left in --output-dir by an earlier invocation.
StaleOut ==
    [exists |-> TRUE, hasTable |-> TRUE,
     rows |-> << [id |-> 1, key |-> BaseKey], [id |-> 2, key |-> BaseKey] >>]

\* ROW_NUMBER() without ORDER BY id: rows ranked by their physical
\* position in the table.
RowNumberPhysical(src, i) ==
    1 + Cardinality({ j \in 1..Len(src) : src[j].key = src[i].key /\ j < i })

\* ROW_NUMBER() OVER (PARTITION BY <the 17 columns> ORDER BY id); in a
\* PARTITION BY, NULL values fall in one partition.
RowNumber(src, i) ==
    1 + Cardinality({ j \in 1..Len(src) :
                          src[j].key = src[i].key /\ src[j].id < src[i].id })

\* COUNT(*) OVER (PARTITION BY <the 17 columns>)
GroupCount(src, i) ==
    Cardinality({ j \in 1..Len(src) : src[j].key = src[i].key })

\* The extraction query: WHERE grp_count > 1 AND rn <= 2 ORDER BY id.
ExtractRows(src) ==
    LET RECURSIVE Pick(_)
        Pick(i) ==
            IF i > Len(src) THEN << >>
            ELSE (IF GroupCount(src, i) > 1 /\ RowNumber(src, i) <= 2
                  THEN << [id |-> src[i].id, key |-> src[i].key] >>
                  ELSE << >>) \o Pick(i + 1)
    IN  SortById(Pick(1))

mergeVars == << dest, destAtStart, run, prev, attached >>

\* output_dir.mkdir(parents=True, exist_ok=True)
ExtractMainMkdir ==
    /\ pc = "x_main"
    /\ outDir' = TRUE
    /\ pc' = "x_read"
    /\ UNCHANGED << listFile, mergeVars, paths, cur, conn, txn, per_file_counts,
                    report, err, origErr, failedAt, outs, attachedOut >>

\* input_paths = read_sqlite_paths(input_list)
ExtractMainReadPaths ==
    /\ pc = "x_read"
    /\ LET res == ReadSqlitePaths(listFile)
       IN  IF res.ok
           THEN /\ paths' = res.paths
                /\ cur' = 1
                /\ pc' = "x_unlink"
                /\ NoRaise
           ELSE /\ pc' = "failed"
                /\ Raise("input-not-found", 0)
                /\ UNCHANGED << paths, cur >>
    /\ UNCHANGED << listFile, mergeVars, conn, txn, per_file_counts, report,
                    extractVars >>

\* if output_db.exists(): output_db.unlink()
ExtractUnlink ==
    /\ pc = "x_unlink"
    /\ outs' = [outs EXCEPT ![cur] = AbsentOut]
    /\ pc' = "x_connect"
    /\ UNCHANGED << listFile, mergeVars, paths, cur, conn, txn, per_file_counts,
                    report, err, origErr, failedAt, outDir, attachedOut >>

\* conn = sqlite3.connect(str(source_db)): before the try block.
ExtractConnect ==
    /\ pc = "x_connect"
    /\ \E ok \in BOOLEAN :
          IF ok
          THEN /\ conn' = TRUE
               /\ pc' = "x_attach"
               /\ NoRaise
          ELSE /\ pc' = "failed"
               /\ Raise("connect", cur)
               /\ UNCHANGED conn
    /\ UNCHANGED << listFile, mergeVars, paths, cur, txn, per_file_counts, report,
                    extractVars >>

\* conn.execute("ATTACH DATABASE ? AS outdb"); outdb_attached = True
ExtractAttach ==
    /\ pc = "x_attach"
    /\ \E ok \in BOOLEAN :
          IF ok
          THEN /\ outs' = [outs EXCEPT ![cur].exists = TRUE]
               /\ attachedOut' = TRUE
               /\ pc' = "x_create"
               /\ NoRaise
          ELSE /\ pc' = "x_cleanup"
               /\ Raise("attach", cur)
               /\ UNCHANGED << outs, attachedOut >>
    /\ UNCHANGED << listFile, mergeVars, paths, cur, conn, txn, per_file_counts,
                    report, outDir >>

\* CREATE TABLE outdb.credible_set_table (...)
ExtractCreateTable ==
    /\ pc = "x_create"
    /\ \E ok \in BOOLEAN :
          IF ok /\ ~outs[cur].hasTable
          THEN /\ outs' = [outs EXCEPT ![cur].hasTable = TRUE]
               /\ pc' = "x_insert"
               /\ NoRaise
          ELSE /\ pc' = "x_cleanup"
               /\ Raise("create", cur)
               /\ UNCHANGED outs
    /\ UNCHANGED << listFile, mergeVars, paths, cur, conn, txn, per_file_counts,
                    report, outDir, attachedOut >>

\* The INSERT INTO outdb.credible_set_table ... SELECT of the ranked rows.
\* A source without credible_set_table fails while the statement is
\* prepared.
ExtractInsert ==
    /\ pc = "x_insert"
    /\ \E ok \in BOOLEAN, began \in BOOLEAN :
          IF ok /\ paths[cur].hasTable
          THEN /\ began
               /\ txn' = [active |-> TRUE, rows |-> ExtractRows(paths[cur].rows)]
               /\ pc' = "x_commit"
               /\ NoRaise
          ELSE /\ began => paths[cur].hasTable
               /\ txn' = IF began THEN [active |-> TRUE, rows |-> << >>] ELSE NoTxn
               /\ pc' = "x_cleanup"
               /\ Raise("insert", cur)
    /\ UNCHANGED << listFile, mergeVars, paths, cur, conn, per_file_counts, report,
                    extractVars >>

\* row_count = SELECT COUNT(*) FROM outdb.credible_set_table; conn.commit()
ExtractCommit ==
    /\ pc = "x_commit"
    /\ \E ok \in BOOLEAN :
          IF ok
          THEN /\ outs' = [outs EXCEPT ![cur].rows = txn.rows]
               /\ per_file_counts' = Append(per_file_counts, Len(txn.rows))
               /\ txn' = NoTxn
               /\ pc' = "x_detach"
               /\ NoRaise
          ELSE /\ pc' = "x_cleanup"
               /\ Raise("commit", cur)
               /\ UNCHANGED << outs, per_file_counts, txn >>
    /\ UNCHANGED << listFile, mergeVars, paths, cur, conn, report, outDir,
                    attachedOut >>

\* conn.execute("DETACH DATABASE outdb"); outdb_attached = False;
\* return int(row_count)
ExtractDetach ==
    /\ pc = "x_detach"
    /\ \E ok \in BOOLEAN :
          IF ok
          THEN /\ attachedOut' = FALSE
               /\ NoRaise
          ELSE /\ Raise("detach", cur)
               /\ UNCHANGED attachedOut
    /\ pc' = "x_cleanup"
    /\ UNCHANGED << listFile, mergeVars, paths, cur, conn, txn, per_file_counts,
                    report, outDir, outs >>

\* finally: if outdb_attached: try: commit(); DETACH except sqlite3.Error:
\* pass; conn.close().  A cleanup commit that succeeds makes the pending
\* rows permanent; a cleanup failure is swallowed.
ExtractCleanup ==
    /\ pc = "x_cleanup"
    /\ \E commitOk \in BOOLEAN :
          outs' = IF attachedOut /\ commitOk /\ txn.active
                  THEN [outs EXCEPT ![cur].rows = txn.rows]
                  ELSE outs
    /\ conn' = FALSE
    /\ attachedOut' = FALSE
    /\ txn' = NoTxn
    /\ pc' = IF err = "none" THEN "x_next" ELSE "failed"
    /\ UNCHANGED << listFile, mergeVars, paths, cur, per_file_counts, report, err,
                    origErr, failedAt, outDir >>

\* total_rows += rows, then the next source or the final log line.
ExtractMainNext ==
    /\ pc = "x_next"
    /\ report' = [report EXCEPT !.total = @ + per_file_counts[cur]]
    /\ IF cur < Len(paths)
       THEN cur' = cur + 1 /\ pc' = "x_unlink"
       ELSE UNCHANGED cur /\ pc' = "x_done"
    /\ UNCHANGED << listFile, mergeVars, paths, conn, txn, per_file_counts, err,
                    origErr, failedAt, extractVars >>

InitExtract ==
    /\ listFile \in ListFiles(ExtractLines, MaxRows)
    /\ dest = Absent
    /\ destAtStart = FileId(dest)
    /\ pc = "x_main"
    /\ outs \in { [i \in 1..MaxSources |-> AbsentOut],
                   [i \in 1..MaxSources |-> IF i = 1 THEN StaleOut ELSE AbsentOut] }
    /\ InitControl

NextExtract ==
    \/ ExtractMainMkdir
    \/ ExtractMainReadPaths
    \/ ExtractUnlink
    \/ ExtractConnect
    \/ ExtractAttach
    \/ ExtractCreateTable
    \/ ExtractInsert
    \/ ExtractCommit
    \/ ExtractDetach
    \/ ExtractCleanup
    \/ ExtractMainNext

SpecExtract == InitExtract /\ [][NextExtract]_vars

(***************************************************************************)
(* Vocabulary of the properties of the merge engine.                       *)
(***************************************************************************)
\* The sources the list names, in list order.
Sources == SelectSeq(listFile.lines, LAMBDA l : ~l.blank)

\* Every record of every source, with the position of its source.
InputRecords ==
    UNION { { [pos |-> p, id |-> r.id, key |-> r.key] : r \in Range(Sources[p].rows) } :
            p \in 1..Len(Sources) }

\* x is encountered before y: (source position, then original id).
Earlier(x, y) == x.pos < y.pos \/ (x.pos = y.pos /\ x.id < y.id)

\* The merged table after the first k sources were transferred.
RECURSIVE MergedPrefix(_)
MergedPrefix(k) ==
    IF k = 0 THEN << >>
    ELSE InsertNewRows(MergedPrefix(k - 1), paths[k].rows, k)

\* The rows this run has put in the output, committed or not.
MergedRows == IF dest.gen = run /\ dest.hasTable THEN Range(dest.rows) \cup Range(txn.rows)
              ELSE {}

TwoSourcesOneKey ==
    /\ Len(Sources) = 2
    /\ Len(Sources[1].rows) = 1
    /\ Len(Sources[2].rows) = 1
    /\ Sources[1].rows[1].key = Sources[2].rows[1].key

\* C1: every row of the merged output originates from the earliest
\* encountered input record (source position, then original id) among the
\* records that have the row's identity key; two sources holding one record
\* each with the same key leave one row, taken from the first source listed.
FirstWriterWins ==
    /\ \A r \in MergedRows :
          \E x \in InputRecords :
              /\ x.key = r.key
              /\ r.origin = << x.pos, x.id >>
              /\ \A y \in InputRecords : y.key = r.key => ~Earlier(y, x)
    /\ (pc = "done" /\ TwoSourcesOneKey) =>
          /\ Len(dest.rows) = 1
          /\ dest.rows[1].origin[1] = 1

FirstWriterWitness ==
    /\ pc = "done"
    /\ TwoSourcesOneKey
    /\ dest.rows[1].origin = << 1, Sources[1].rows[1].id >>

\* C2: in every state of the output table, committed or inside the open
\* transaction, no two rows agree on all identity-key attributes (NULL
\* counting as equal to NULL).
NoDuplicateSurvives ==
    \A t \in {dest.rows, txn.rows} :
        \A i, j \in 1..Len(t) : i # j => t[i].key # t[j].key

NullDuplicateWitness ==
    /\ pc = "done"
    /\ \E x, y \in InputRecords :
          /\ x # y
          /\ x.key = y.key
          /\ x.key["rsid"] = NULL
    /\ Cardinality({ i \in 1..Len(dest.rows) : dest.rows[i].key["rsid"] = NULL }) = 1

\* C3: after a completed merge every identity key of the input has a row
\* in the output: records that differ in a key attribute (NULL differing
\* from every non-NULL value) are both kept.
NeverMergesDistinct ==
    pc = "done" =>
        \A x \in InputRecords : \E i \in 1..Len(dest.rows) : dest.rows[i].key = x.key

\* C5: after a completed merge the per-source counts are the row counts of
\* the sources, the final count is the number of distinct identity keys,
\* and the reported removed count is the sum of the per-source counts minus
\* the final count, the number of records with an earlier record of the
\* same key.
DuplicateRemovedCount ==
    pc = "done" =>
        /\ per_file_counts = [p \in 1..Len(Sources) |-> Len(Sources[p].rows)]
        /\ report.merged = Cardinality({ x.key : x \in InputRecords })
        /\ report.removed = Sum(per_file_counts) - report.merged
        /\ report.removed =
              Cardinality({ x \in InputRecords :
                              \E y \in InputRecords : y.key = x.key /\ Earlier(y, x) })

\* C6: a second run on the same inputs and destination ends with the rows
\* the first run ended with, and no run works on a file it did not create.
IdempotentReplace ==
    /\ (run = 2 /\ prev.status = "done" /\ pc = "done") => dest.rows = prev.rows
    /\ conn => dest.gen = run

IdempotentWitness ==
    /\ run = 2
    /\ prev.status = "done"
    /\ pc = "done"
    /\ Len(dest.rows) = 2

\* C7: when a run has failed, the file that was at the destination before
\* the run is no longer there.
ReplaceOnStart ==
    (pc = "failed" /\ destAtStart.exists) => FileId(dest) # destAtStart

\* C8: a list file that is missing, names no path, names a missing file or
\* names a relative path makes the run fail before anything is opened or
\* created.
BadList ==
    \/ ~listFile.exists
    \/ Sources = << >>
    \/ \E p \in 1..Len(Sources) : ~Sources[p].exists \/ ~Sources[p].abs

InputNotFoundFailsFast ==
    (BadList /\ pc # "main") =>
        /\ pc = "failed"
        /\ err = "input-not-found"
        /\ FileId(dest) = destAtStart

\* C9: when the count, the insert or the commit of a transfer fails, the
\* failure reaches main() with no database attached and is the error the
\* run fails with.
CleanupKeepsOriginalError ==
    (origErr \in {"count", "insert", "commit"} /\ pc \in {"close", "failed"}) =>
        /\ err = origErr
        /\ attached = {}

\* C10 as stated: at most one source is attached, and a run that failed
\* while processing source k leaves exactly the rows of sources 1..k-1.
AtMostOneAttached == attached \subseteq {cur} /\ Cardinality(attached) <= 1

FailureKeepsEarlierSourcesOnly ==
    /\ AtMostOneAttached
    /\ (pc = "failed" /\ failedAt >= 1) => dest.rows = MergedPrefix(failedAt - 1)

\* C10 amended: a failure at the attach, count, insert or commit of source
\* k leaves exactly the rows of sources 1..k-1; a failure of the detach
\* that follows the commit of source k leaves the rows of sources 1..k.
FailureKeepsCommittedSources ==
    /\ AtMostOneAttached
    /\ (pc = "failed" /\ failedAt >= 1) =>
          dest.rows = MergedPrefix(IF origErr = "detach" THEN failedAt
                                   ELSE failedAt - 1)

FailureAtSecondSourceWitness ==
    /\ pc = "failed"
    /\ failedAt = 2
    /\ origErr \in {"insert", "commit"}
    /\ Len(dest.rows) = 1
    /\ Len(MergedPrefix(2)) = 2

(***************************************************************************)
(* Properties of the extraction engine.                                    *)
(***************************************************************************)
\* The physical orders a table's rows can be stored in.
Orders(src) ==
    { [i \in 1..Len(src) |-> src[q[i]]] :
          q \in { f \in [1..Len(src) -> 1..Len(src)] :
                     \A a, b \in 1..Len(src) : a # b => f[a] # f[b] } }

ExtractionCapOf(src, out) ==
    /\ Range(out) \subseteq Range(src)
    /\ Cardinality(Range(out)) = Len(out)
    /\ \A r \in Range(src) :
          LET group == { x \in Range(src) : x.key = r.key }
              kept  == group \cap Range(out)
          IN  IF Cardinality(group) >= 2
              THEN /\ Cardinality(kept) = 2
                   /\ \A a \in kept, b \in group \ kept : a.id < b.id
              ELSE kept = {}
    /\ ((\A a, b \in Range(src) : a # b => a.key # b.key) => out = << >>)
    /\ \A o \in Orders(src) : ExtractRows(o) = out

\* C4: when the extraction has completed, the output of every source holds
\* exactly the two lowest-id records of every identity-key group of two or
\* more records, nothing of a singleton group, every row under its original
\* id, no row at all when no group is duplicated, and the same rows for
\* every physical order of the source's rows.
ExtractionCap ==
    pc = "x_done" =>
        \A p \in 1..Len(paths) : ExtractionCapOf(paths[p].rows, outs[p].rows)

ExtractionCapWitness ==
    /\ pc = "x_done"
    /\ \E p \in 1..Len(paths) :
          /\ Len(paths[p].rows) = 3
          /\ paths[p].rows[1].id = 3
          /\ \A i \in 1..3 : paths[p].rows[i].key = paths[p].rows[1].key
          /\ Ids(outs[p].rows) = {1, 2}

====
